---------------------------- MODULE Spec2Model ----------------------------
(***************************************************************************)
(* Index Store of spo-rag: VectorStore.load / save / indexExists and the   *)
(* file lock they share (src/shared/vector-store.ts).                      *)
(*                                                                         *)
(* Several operating-system processes (crawler = writer, API server =      *)
(* reader) each own one VectorStore instance and share only the            *)
(* filesystem.  Every filesystem access of the code is one atomic step of  *)
(* the model; the JavaScript that runs synchronously before an access is   *)
(* part of the step that performs the access.                              *)
(*                                                                         *)
(* Filesystem: three sibling directories, config.faiss.indexPath ("prod"), *)
(* indexPath + ".tmp" ("tmp") and indexPath + ".backup" ("backup").  A      *)
(* directory holds up to four files: .lock, docstore.json, faiss.index and *)
(* stats.json.  File contents are abstracted to the number of the          *)
(* generation that wrote them (0: the file does not exist); the lock file  *)
(* holds the pid of its creator.  rename(2) follows POSIX: the source must *)
(* exist and an existing target must be an empty directory.                *)
(*                                                                         *)
(* The API server (api/server.ts) adds its start-up, the IndexWatcher      *)
(* (fs.watch on the index directory and the 'indexUpdated' listener), the  *)
(* query and crawl-trigger routes and its shutdown; the crawler adds its   *)
(* main().  A watcher callback that finds its process inside a VectorStore *)
(* call starts when that call is over.                                     *)
(*                                                                         *)
(* The crawler's main() (crawler/index.ts) is modelled twice: as one step  *)
(* that either fails or calls save() where its documents do not matter      *)
(* (crawler_main_fail, crawler_main_save), and step by step with the         *)
(* documents it lists in SpecCrawl: the configuration read at import, the   *)
(* listing, the per-document loop, the Indexer (crawler/indexer.ts) and the *)
(* statistics handed to save().  A document is abstracted to its id, the    *)
(* number of segments the text splitter cuts it into, and which of          *)
(* download, extraction and chunking fails for it.  SpecIndexer is the      *)
(* Indexer under a caller that mixes createIndex and addDocuments.          *)
(*                                                                         *)
(* Environment assumptions: unlink of an existing lock file succeeds;      *)
(* injected I/O errors (at most MaxFaults) hit the steps of save() after   *)
(* the lock was taken and leave the filesystem unchanged.                  *)
(***************************************************************************)
EXTENDS Integers, Sequences, FiniteSets, TLC

\* ------------------------------------------------------------------ bounds
NumProcs == 2
MaxGen == 2
MaxRetries == 2
MaxFaults == 1
MaxPending == 1
MaxDocs == 2
MaxChunks == 2
MaxChunkSize == 2
MaxVectors == 6
MaxText == 1

Procs == 1..NumProcs
\* pid found in a lock file left behind by a writer that crashed
StalePid == NumProcs + 1
\* content of a stats.json that JSON.parse rejects
CorruptStats == MaxGen + 1
NoFile == 0
\* the API server process; every other process is a crawler run
Server == 1
Crawlers == Procs \ { Server }

VARIABLES
  fs,            \* [prod, tmp, backup] -> directory
  pc,            \* per process: position in load()/save()
  op,            \* per process: the call in progress: "none" | "load" | "save" | "indexExists"
  retries,       \* acquireLock's local `retries`
  arg,           \* save()'s arguments: generation (and stats) being saved
  rd,            \* FaissStore.load / save: the files read / written so far [doc, idx]
  vectorStore,   \* this.vectorStore: [doc, idx], doc = 0 is null
  stats,         \* this.stats: 0 is null
  err,           \* outcome of the call in progress: "none" | "ok" | the error thrown
  emitted,       \* 'indexUpdated' notifications emitted by the instance
  existsRet,     \* what indexExists() returned: "none" | "true" | "false"
  nextGen,       \* next generation number handed to a save() call
  faults,        \* injected I/O errors so far
  \* history variables, read by the properties only
  ran,           \* the process has called load() or save() at least once
  attempts,      \* lock creation attempts made by the current call
  wrote,         \* the current call touched tmp, backup or a generation file
  acquired,      \* the current / last call's acquireLock returned normally
  relAttempted,  \* the current / last call has run releaseLock
  pre,           \* what the process saw when the call started
  sidecar,       \* what loadStats found: "none" | "ok" | "missing" | "corrupt"
  renamed,       \* the current save() has renamed tempPath to indexPath
  \* the API server (api/server.ts), its IndexWatcher and its routers
  srv,           \* Server: "off" | "init" | "running" | "stopping" | "exited"
  caller,        \* who awaits the VectorStore call in progress:
                 \* "none" | "init" | "fs" | "event" | "crawler"
  watcher,       \* IndexWatcher: "none" | "idle" (start() returned early) | "started" | "stopped"
  listeners,     \* number of 'indexUpdated' listeners registered by the IndexWatcher
  subscriber,    \* another 'indexUpdated' listener of the VectorStore: on (it asked
                 \* for the events), registered (it is in the emitter's list),
                 \* received (number of events delivered to it)
  fsPending,     \* 'change' events for stats.json queued for the fs.watch listener
  query,         \* POST /api/query in progress or last answered
  crawlInProgress, \* the flag of createCrawlerRouter
  crawl,         \* crawler process: "off" | "running"
  closePending,  \* exit code of a crawler child whose 'close' event the API
                 \* process has not handled yet, -1: none
  parent,        \* the API process that spawned the crawler, 0: started from a shell or cron
  reply,         \* last answer of POST /api/crawler/trigger: "none" | "202" | "409"
  \* history variables of the server
  startedEmpty,  \* Server.initialize found no index
  stoppedAt,     \* nextGen when IndexWatcher.stop() ran, 0: not stopped
  prevReload,    \* the previous reload callback of the process, if it succeeded, no
                 \* save() was in progress when it ended and what it loaded is the
                 \* generation in production: what it loaded, and nextGen
  \* the crawler's main() (crawler/index.ts) and the Indexer (crawler/indexer.ts)
  job,           \* per process: the run of main(): its position and its locals
  index          \* the FaissStore a caller of the Indexer holds: its chunks'
                 \* metadata in insertion order

vars == << fs, pc, op, retries, arg, rd, vectorStore, stats, err, emitted, existsRet,
           nextGen, faults, ran, attempts, wrote, acquired, relAttempted, pre, sidecar,
           renamed, srv, caller, watcher, listeners, subscriber, fsPending, query, crawlInProgress,
           crawl, closePending, parent, reply, startedEmpty, stoppedAt,
           prevReload, job, index >>

srvVars == << srv, caller, watcher, listeners, subscriber, fsPending, query, crawlInProgress,
              crawl, closePending, parent, reply, startedEmpty, stoppedAt,
              prevReload >>

buildVars == << job, index >>

procVars == << pc, op, retries, arg, rd, vectorStore, stats, err, emitted, existsRet,
               ran, attempts, wrote, acquired, relAttempted, pre, sidecar, renamed >>

\* -------------------------------------------------------------- filesystem
\* watchers: the processes holding an fs.watch handle on the directory (the
\* handle is bound to the directory itself, so it moves with it on rename)
AbsentDir ==
  [exists |-> FALSE, lock |-> NoFile, doc |-> NoFile, idx |-> NoFile, stats |-> NoFile,
   watchers |-> {}]
EmptyDir == [AbsentDir EXCEPT !.exists = TRUE]

IsEmptyDir(d) ==
  d.exists /\ d.lock = NoFile /\ d.doc = NoFile /\ d.idx = NoFile /\ d.stats = NoFile

\* existsSync(path): path is <<dir>> or <<dir, file>>
existsSync(f, path) ==
  IF Len(path) = 1 THEN f[path[1]].exists
  ELSE f[path[1]].exists /\ f[path[1]][path[2]] # NoFile

indexPath == << "prod" >>
tempPath == << "tmp" >>
backupPath == << "backup" >>
lockFilePath == << "prod", "lock" >>

\* fs.mkdir(dir, {recursive: true})
Mkdir(f, dir) == IF f[dir].exists THEN f ELSE [f EXCEPT ![dir] = EmptyDir]

\* fs.rename(src, dst) on directories
CanRename(f, src, dst) == f[src].exists /\ (f[dst].exists => IsEmptyDir(f[dst]))
Rename(f, src, dst) == [f EXCEPT ![dst] = f[src], ![src] = AbsentDir]

\* fs.rm(dir, {recursive: true, force: true})
RmRecursive(f, dir) == [f EXCEPT ![dir] = AbsentDir]

\* fs.writeFile(dir/file, content): the directory must exist
CanWrite(f, dir) == f[dir].exists
WriteFile(f, dir, file, content) == [f EXCEPT ![dir][file] = content]

\* fs.watch: a write into stats.json of a watched directory queues one 'change'
\* event per watching process (the kernel merges events beyond MaxPending)
Notify(pend, d) ==
  [p \in Procs |-> IF p \in d.watchers /\ pend[p] < MaxPending THEN pend[p] + 1 ELSE pend[p]]

\* fs.watch(indexPath, ...): the handle is attached to the directory
AddWatch(f, dir, p) == [f EXCEPT ![dir].watchers = @ \cup { p }]

\* FSWatcher.close() that leaves the handle open
CloseWatch_leaveOpen(f, p) == f

\* FSWatcher.close(), also what process exit does to the handle
CloseWatch(f, p) ==
  [dir \in DOMAIN f |-> [f[dir] EXCEPT !.watchers = @ \ { p }]]

\* emit('indexUpdated', stats) that notifies twice
emit_twice(q, s) == Append(Append(q, s), s)

\* this.emit('indexUpdated', stats)
emit(q, s) == Append(q, s)

\* a loadStats that clears stats it finds unchanged on disk
assignStats_dropUnchanged(old, parsed) == IF old = parsed THEN 0 ELSE parsed

\* loadStats: this.stats = JSON.parse(data), whatever this.stats was
assignStats(old, parsed) == parsed

\* releaseLock() that never unlinks the token
releaseLock_noUnlink(f) == f

\* releaseLock(): if (existsSync(lockFilePath)) unlink(lockFilePath); errors swallowed
releaseLock(f) ==
  IF existsSync(f, lockFilePath) THEN [f EXCEPT !["prod"].lock = NoFile] ELSE f

\* a loop test that allows one attempt too many: retries <= maxRetries
RetriesExhausted_offByOne(r) == r > MaxRetries

\* acquireLock's loop condition, negated: the retries are used up
RetriesExhausted(r) == r >= MaxRetries

\* indexExists() that forgets to look for docstore.json
indexExists_dirOnly(f) == existsSync(f, indexPath)

\* indexExists()
indexExists(f) == existsSync(f, indexPath) /\ existsSync(f, << "prod", "doc" >>)

\* a directory that holds one whole generation g: all three files, all of g
GenOf(d) == IF d.exists /\ d.doc # NoFile /\ d.idx = d.doc /\ d.stats = d.doc THEN d.doc ELSE 0
CompleteGen(d) == GenOf(d) # 0

\* a listener of 'indexUpdated' that no component has registered
NoSubscriber == [on |-> FALSE, registered |-> FALSE, received |-> 0]

\* EventEmitter.emit: each listener in the list is called once
deliver(sub) == IF sub.registered THEN [sub EXCEPT !.received = @ + 1] ELSE sub

\* removeAllListeners('indexUpdated'): the emitter's list for the event is
\* emptied, whoever registered the listeners
removeAllListeners(sub) == [sub EXCEPT !.registered = FALSE]

\* ------------------------------------------------------------ initial state
\* The index directory before the first crawl: not there, an empty directory
\* (the image creates it: mkdir -p /app/data/faiss-index), or holding only the
\* lock of a writer that crashed.  Every VectorStore is freshly constructed.
InitDirs ==
  { AbsentDir, EmptyDir, [EmptyDir EXCEPT !.lock = StalePid] }

NoStore == [doc |-> 0, idx |-> 0]
NoPre == [exists |-> FALSE, gen |-> 0, store |-> NoStore, stats |-> 0, emits |-> 0]
\* req.body of POST /api/query: the query field may be missing; a string is
\* a sequence of characters, " " standing for whitespace
Chars == { " ", "a" }
Texts == UNION { [1..k -> Chars] : k \in 0..MaxText }
NoBody == [has |-> FALSE, query |-> << >>]
Bodies == { NoBody } \cup { [has |-> TRUE, query |-> t] : t \in Texts }
\* AppError(message, statusCode)
NoError == [message |-> "", status |-> 0]
AppError(message, status) == [message |-> message, status |-> status]
\* st: "none" | "rejected" | "running" | "answered" | "failed"; ref: the
\* store getVectorStore() returned; used: the store the retriever searched;
\* calls: chain.call invocations (each embeds the query and asks the LLM);
\* cause (history): why the handler threw: "none" | "empty" | "notLoaded" |
\* "chain"
NoQuery ==
  [st |-> "none", ref |-> NoStore, used |-> NoStore, body |-> NoBody,
   error |-> NoError, calls |-> 0, cause |-> "none"]
NoReload == [ok |-> FALSE, store |-> NoStore, stats |-> 0, gen |-> 0]

\* config.faiss before the environment was read
NoConfig == [chunkSize |-> 0, chunkOverlap |-> 0]
\* no IndexStats object
NoStats == [totalDocuments |-> -1, totalChunks |-> -1]

\* main() is not running.  st is the position in main(); cause, listed,
\* embedCalls, saveCalled, code and fs0 (the filesystem when the process
\* started) are history fields
NoJob ==
  [st |-> "off", config |-> NoConfig, documents |-> << >>, i |-> 0,
   processedDocuments |-> << >>, documentsProcessed |-> 0, documentsSkipped |-> 0,
   errors |-> << >>, allChunks |-> << >>, store |-> << >>, stats |-> NoStats,
   cause |-> "none", listed |-> FALSE, embedCalls |-> 0, saveCalled |-> FALSE,
   code |-> -1, fs0 |-> [prod |-> AbsentDir, tmp |-> AbsentDir, backup |-> AbsentDir]]

Init ==
  /\ \E d \in InitDirs : fs = [prod |-> d, tmp |-> AbsentDir, backup |-> AbsentDir]
  /\ pc = [p \in Procs |-> "idle"]
  /\ op = [p \in Procs |-> "none"]
  /\ retries = [p \in Procs |-> 0]
  /\ arg = [p \in Procs |-> 0]
  /\ rd = [p \in Procs |-> NoStore]
  /\ vectorStore = [p \in Procs |-> NoStore]
  /\ stats = [p \in Procs |-> 0]
  /\ err = [p \in Procs |-> "none"]
  /\ emitted = [p \in Procs |-> << >>]
  /\ existsRet = [p \in Procs |-> "none"]
  /\ nextGen = 1
  /\ faults = 0
  /\ ran = [p \in Procs |-> FALSE]
  /\ attempts = [p \in Procs |-> 0]
  /\ wrote = [p \in Procs |-> FALSE]
  /\ acquired = [p \in Procs |-> FALSE]
  /\ relAttempted = [p \in Procs |-> FALSE]
  /\ pre = [p \in Procs |-> NoPre]
  /\ sidecar = [p \in Procs |-> "none"]
  /\ renamed = [p \in Procs |-> FALSE]
  /\ srv = [p \in Procs |-> "off"]
  /\ caller = [p \in Procs |-> "none"]
  /\ watcher = [p \in Procs |-> "none"]
  /\ listeners = [p \in Procs |-> 0]
  /\ subscriber = [p \in Procs |-> NoSubscriber]
  /\ fsPending = [p \in Procs |-> 0]
  /\ query = [p \in Procs |-> NoQuery]
  /\ crawlInProgress = [p \in Procs |-> FALSE]
  /\ crawl = [p \in Procs |-> "off"]
  /\ closePending = [p \in Procs |-> -1]
  /\ parent = [p \in Procs |-> 0]
  /\ reply = [p \in Procs |-> "none"]
  /\ startedEmpty = [p \in Procs |-> FALSE]
  /\ stoppedAt = [p \in Procs |-> 0]
  /\ prevReload = [p \in Procs |-> NoReload]
  /\ job = [p \in Procs |-> NoJob]
  /\ index = << >>

\* ------------------------------------------------------------------- calls
\* what a call that starts now remembers of the state it started in
Snapshot(p) ==
  [exists |-> existsSync(fs, indexPath), gen |-> GenOf(fs.prod),
   store |-> vectorStore[p], stats |-> stats[p], emits |-> Len(emitted[p])]

StartCall(p, name) ==
  /\ pc[p] = "idle"
  /\ pc' = [pc EXCEPT ![p] = "acq_mkdir"]
  /\ op' = [op EXCEPT ![p] = name]
  /\ ran' = [ran EXCEPT ![p] = TRUE]
  /\ pre' = [pre EXCEPT ![p] = Snapshot(p)]
  /\ UNCHANGED << fs, retries, rd, vectorStore, stats, err, emitted, faults,
                  attempts, wrote, acquired, relAttempted, sidecar >>
  /\ UNCHANGED existsRet

\* load(): entered
load(p) ==
  /\ StartCall(p, "load")
  /\ UNCHANGED << arg, nextGen >>
  /\ UNCHANGED << renamed, srvVars, buildVars >>

\* save(vectorStore, stats): entered with a generation built by the caller
save(p) ==
  /\ nextGen <= MaxGen
  /\ StartCall(p, "save")
  /\ arg' = [arg EXCEPT ![p] = nextGen]
  /\ nextGen' = nextGen + 1
  /\ UNCHANGED << renamed, srvVars, buildVars >>

\* a throw inside the try block: control goes to the catch clause
Throw(p, e) ==
  /\ pc' = [pc EXCEPT ![p] = "catch"]
  /\ err' = [err EXCEPT ![p] = e]

\* indexExists(): existsSync never throws, the catch is dead code
indexExists_call(p) ==
  /\ pc[p] = "idle"
  /\ pc' = [pc EXCEPT ![p] = "done"]
  /\ op' = [op EXCEPT ![p] = "indexExists"]
  /\ existsRet' = [existsRet EXCEPT ![p] = IF indexExists(fs) THEN "true" ELSE "false"]
  /\ ran' = [ran EXCEPT ![p] = TRUE]
  /\ pre' = [pre EXCEPT ![p] = Snapshot(p)]
  /\ UNCHANGED << fs, retries, arg, rd, vectorStore, stats, err, emitted, nextGen,
                  faults, attempts, wrote, acquired, relAttempted, sidecar >>
  /\ UNCHANGED << renamed, srvVars, buildVars >>

\* the call has returned or thrown to its caller: its locals are gone
ReturnFrame(p) ==
  /\ pc[p] = "done"
  /\ pc' = [pc EXCEPT ![p] = "idle"]
  /\ op' = [op EXCEPT ![p] = "none"]
  /\ retries' = [retries EXCEPT ![p] = 0]
  /\ arg' = [arg EXCEPT ![p] = 0]
  /\ rd' = [rd EXCEPT ![p] = NoStore]
  /\ err' = [err EXCEPT ![p] = "none"]
  /\ attempts' = [attempts EXCEPT ![p] = 0]
  /\ wrote' = [wrote EXCEPT ![p] = FALSE]
  /\ acquired' = [acquired EXCEPT ![p] = FALSE]
  /\ relAttempted' = [relAttempted EXCEPT ![p] = FALSE]
  /\ pre' = [pre EXCEPT ![p] = NoPre]
  /\ sidecar' = [sidecar EXCEPT ![p] = "none"]
  /\ existsRet' = [existsRet EXCEPT ![p] = "none"]
  /\ renamed' = [renamed EXCEPT ![p] = FALSE]
  /\ UNCHANGED << nextGen, faults >>

\* a call made directly on the VectorStore returns
call_return(p) ==
  /\ caller[p] = "none"
  /\ ReturnFrame(p)
  /\ UNCHANGED << fs, vectorStore, stats, emitted, ran >>
  /\ UNCHANGED << srvVars, buildVars >>

\* ------------------------------------------------------------- acquireLock
\* fs.mkdir(path.dirname(lockFilePath), {recursive: true}): the lock lives
\* inside the index directory, so this creates the production path
acquireLock_mkdir(p) ==
  /\ pc[p] = "acq_mkdir"
  /\ fs' = Mkdir(fs, "prod")
  /\ pc' = [pc EXCEPT ![p] = "acq_create"]
  /\ UNCHANGED << op, retries, arg, rd, vectorStore, stats, err, emitted, nextGen,
                  faults, ran, attempts, wrote, acquired, relAttempted, pre, sidecar >>
  /\ UNCHANGED existsRet
  /\ UNCHANGED << renamed, srvVars, buildVars >>

\* the outcome of fs.writeFile(lockFilePath, pid, {flag: 'wx'}): the error code
\* it rejects with, or "ok" when it created the file
writeFile_wx(f) ==
  IF ~existsSync(f, indexPath) THEN "ENOENT"
  ELSE IF existsSync(f, lockFilePath) THEN "EEXIST"
  ELSE "ok"

\* a catch that retries on every error
isEEXIST_anyError(code) == TRUE

\* if (error.code === 'EEXIST') in the catch of acquireLock's loop
isEEXIST(code) == code = "EEXIST"

\* fs.writeFile(lockFilePath, pid, {flag: 'wx'}) and what follows it: return,
\* or on EEXIST retries++ and the loop test, or rethrow of any other error
\* (ENOENT: the directory was renamed away since the mkdir)
acquireLock_writeFile(p) ==
  /\ pc[p] = "acq_create"
  /\ attempts' = [attempts EXCEPT ![p] = @ + 1]
  /\ IF writeFile_wx(fs) = "ok"
     THEN /\ fs' = WriteFile(fs, "prod", "lock", p)
          /\ acquired' = [acquired EXCEPT ![p] = TRUE]
          /\ pc' = [pc EXCEPT ![p] = IF op[p] = "load" THEN "l_check" ELSE "s_tmpMkdir"]
          /\ UNCHANGED << retries, err >>
     ELSE IF isEEXIST(writeFile_wx(fs))
     THEN /\ retries' = [retries EXCEPT ![p] = @ + 1]
          /\ IF RetriesExhausted(retries[p] + 1)
             THEN Throw(p, "LockTimeout")
             ELSE /\ pc' = [pc EXCEPT ![p] = "acq_mkdir"]
                  /\ UNCHANGED err
          /\ UNCHANGED << fs, acquired >>
     ELSE /\ Throw(p, "FsError")
          /\ UNCHANGED << fs, retries, acquired >>
  /\ UNCHANGED << op, arg, rd, vectorStore, stats, emitted, nextGen, faults,
                  ran, wrote, relAttempted, pre, sidecar >>
  /\ UNCHANGED existsRet
  /\ UNCHANGED << renamed, srvVars, buildVars >>

\* the catch clause of load() and of save(): releaseLock(), then rethrow
catch_releaseLock(p) ==
  /\ pc[p] = "catch"
  /\ fs' = releaseLock(fs)
  /\ relAttempted' = [relAttempted EXCEPT ![p] = TRUE]
  /\ pc' = [pc EXCEPT ![p] = "done"]
  /\ UNCHANGED << op, retries, arg, rd, vectorStore, stats, err, emitted, nextGen,
                  faults, ran, attempts, wrote, acquired, pre, sidecar >>
  /\ UNCHANGED existsRet
  /\ UNCHANGED << renamed, srvVars, buildVars >>

\* -------------------------------------------------------------------- load
\* if (!existsSync(indexPath)) throw 'Index not found'; then FaissStore.load
\* starts its two reads
load_existsSync(p) ==
  /\ pc[p] = "l_check"
  /\ IF ~existsSync(fs, indexPath)
     THEN Throw(p, "IndexNotFound")
     ELSE /\ pc' = [pc EXCEPT ![p] = "l_read"]
          /\ UNCHANGED err
  /\ UNCHANGED << fs, op, retries, arg, rd, vectorStore, stats, emitted, nextGen,
                  faults, ran, attempts, wrote, acquired, relAttempted, pre, sidecar >>
  /\ UNCHANGED existsRet
  /\ UNCHANGED << renamed, srvVars, buildVars >>

\* FaissStore.load(indexPath): docstore.json and faiss.index are read by two
\* independent reads (Promise.all), in either order; a missing file rejects
FaissStore_load_read(p, file) ==
  /\ pc[p] = "l_read"
  /\ rd[p][file] = 0
  /\ IF ~existsSync(fs, << "prod", file >>)
     THEN /\ Throw(p, "FaissLoadError")
          /\ UNCHANGED rd
     ELSE /\ rd' = [rd EXCEPT ![p][file] = fs.prod[file]]
          /\ pc' = [pc EXCEPT ![p] = IF rd'[p].doc # 0 /\ rd'[p].idx # 0
                                     THEN "l_stats" ELSE "l_read"]
          /\ UNCHANGED err
  /\ UNCHANGED << fs, op, retries, arg, vectorStore, stats, emitted, nextGen,
                  faults, ran, attempts, wrote, acquired, relAttempted, pre, sidecar >>
  /\ UNCHANGED existsRet
  /\ UNCHANGED << renamed, srvVars, buildVars >>

\* this.vectorStore = <loaded>; loadStats(): existsSync(statsPath).  A missing
\* stats.json skips the if-body: this.stats keeps its value
load_loadStats(p) ==
  /\ pc[p] = "l_stats"
  /\ vectorStore' = [vectorStore EXCEPT ![p] = rd[p]]
  /\ IF existsSync(fs, << "prod", "stats" >>)
     THEN /\ pc' = [pc EXCEPT ![p] = "l_statsRead"]
          /\ UNCHANGED sidecar
     ELSE /\ pc' = [pc EXCEPT ![p] = "l_release"]
          /\ sidecar' = [sidecar EXCEPT ![p] = "missing"]
  /\ UNCHANGED << fs, op, retries, arg, rd, stats, err, emitted, nextGen,
                  faults, ran, attempts, wrote, acquired, relAttempted, pre >>
  /\ UNCHANGED existsRet
  /\ UNCHANGED << renamed, srvVars, buildVars >>

\* loadStats(): this.stats = JSON.parse(await fs.readFile(statsPath)); a failed
\* read or parse is caught inside loadStats and sets this.stats = null
loadStats_readFile(p) ==
  /\ pc[p] = "l_statsRead"
  /\ LET c == IF fs.prod.exists THEN fs.prod.stats ELSE NoFile
     IN  /\ stats' = [stats EXCEPT ![p] = IF c = NoFile \/ c = CorruptStats THEN 0
                                          ELSE assignStats(@, c)]
         /\ sidecar' = [sidecar EXCEPT ![p] = IF c = NoFile THEN "missing"
                                              ELSE IF c = CorruptStats THEN "corrupt"
                                              ELSE "ok"]
  /\ pc' = [pc EXCEPT ![p] = "l_release"]
  /\ UNCHANGED << fs, op, retries, arg, rd, vectorStore, err, emitted, nextGen,
                  faults, ran, attempts, wrote, acquired, relAttempted, pre >>
  /\ UNCHANGED existsRet
  /\ UNCHANGED << renamed, srvVars, buildVars >>

\* releaseLock() on load's normal path; load returns this.vectorStore
load_releaseLock(p) ==
  /\ pc[p] = "l_release"
  /\ fs' = releaseLock(fs)
  /\ relAttempted' = [relAttempted EXCEPT ![p] = TRUE]
  /\ err' = [err EXCEPT ![p] = "ok"]
  /\ pc' = [pc EXCEPT ![p] = "done"]
  /\ UNCHANGED << op, retries, arg, rd, vectorStore, stats, emitted, nextGen,
                  faults, ran, attempts, wrote, acquired, pre, sidecar >>
  /\ UNCHANGED existsRet
  /\ UNCHANGED << renamed, srvVars, buildVars >>

\* -------------------------------------------------------------------- save
\* the variables a step of save() between the lock and the commit leaves alone
SaveFrame ==
  UNCHANGED << existsRet, op, retries, arg, rd, vectorStore, stats, emitted, nextGen,
               faults, ran, attempts, acquired, relAttempted, pre, sidecar >>

\* fs.mkdir(dirname(indexPath)) (no effect: acquireLock made indexPath), then
\* vectorStore.save(tempPath): fs.mkdir(tempPath, {recursive: true})
save_mkdirTemp(p) ==
  /\ pc[p] = "s_tmpMkdir"
  /\ fs' = Mkdir(fs, "tmp")
  /\ wrote' = [wrote EXCEPT ![p] = TRUE]
  /\ pc' = [pc EXCEPT ![p] = "s_tmpWrite"]
  /\ UNCHANGED err
  /\ SaveFrame
  /\ UNCHANGED << renamed, srvVars, buildVars >>

\* vectorStore.save(tempPath): docstore.json and faiss.index are written by
\* two independent writes (Promise.all), in either order; ENOENT when the
\* directory is gone
FaissStore_save_write(p, file) ==
  /\ pc[p] = "s_tmpWrite"
  /\ rd[p][file] = 0
  /\ IF CanWrite(fs, "tmp")
     THEN /\ fs' = WriteFile(fs, "tmp", file, arg[p])
          /\ rd' = [rd EXCEPT ![p][file] = arg[p]]
          /\ pc' = [pc EXCEPT ![p] = IF rd'[p].doc # 0 /\ rd'[p].idx # 0
                                     THEN "s_stats" ELSE "s_tmpWrite"]
          /\ UNCHANGED err
     ELSE /\ Throw(p, "FsError")
          /\ UNCHANGED << fs, rd >>
  /\ UNCHANGED << existsRet, op, retries, arg, vectorStore, stats, emitted, nextGen,
                  faults, ran, attempts, wrote, acquired, relAttempted, pre, sidecar >>
  /\ UNCHANGED << renamed, srvVars, buildVars >>

\* fs.writeFile(tempPath/stats.json, JSON.stringify(stats))
save_writeStats(p) ==
  /\ pc[p] = "s_stats"
  /\ IF CanWrite(fs, "tmp")
     THEN /\ fs' = WriteFile(fs, "tmp", "stats", arg[p])
          /\ fsPending' = Notify(fsPending, fs.tmp)
          /\ pc' = [pc EXCEPT ![p] = "s_check"]
          /\ UNCHANGED err
     ELSE /\ Throw(p, "FsError")
          /\ UNCHANGED << fs, fsPending >>
  /\ UNCHANGED << wrote, renamed >>
  /\ SaveFrame
  /\ UNCHANGED << srv, caller, watcher, listeners, subscriber, query, crawlInProgress,
                  crawl, closePending, parent, reply, startedEmpty, stoppedAt,
                  prevReload >>
  /\ UNCHANGED buildVars

\* if (existsSync(indexPath)) { if (existsSync(backupPath)) rm ...; rename ... }
save_existsSync(p) ==
  /\ pc[p] = "s_check"
  /\ pc' = [pc EXCEPT ![p] =
              IF ~existsSync(fs, indexPath) THEN "s_rename2"
              ELSE IF existsSync(fs, backupPath) THEN "s_rmBackup"
              ELSE "s_rename1"]
  /\ UNCHANGED << fs, err, wrote >>
  /\ SaveFrame
  /\ UNCHANGED << renamed, srvVars, buildVars >>

\* fs.rm(backupPath, {recursive: true, force: true})
save_rmBackup(p) ==
  /\ pc[p] = "s_rmBackup"
  /\ fs' = RmRecursive(fs, "backup")
  /\ wrote' = [wrote EXCEPT ![p] = TRUE]
  /\ pc' = [pc EXCEPT ![p] = "s_rename1"]
  /\ UNCHANGED err
  /\ SaveFrame
  /\ UNCHANGED << renamed, srvVars, buildVars >>

\* a rename of save(): throws when rename(2) fails
SaveRename(p, src, dst, next) ==
  /\ IF CanRename(fs, src, dst)
     THEN /\ fs' = Rename(fs, src, dst)
          /\ pc' = [pc EXCEPT ![p] = next]
          /\ UNCHANGED err
     ELSE /\ Throw(p, "FsError")
          /\ UNCHANGED fs
  /\ wrote' = [wrote EXCEPT ![p] = TRUE]
  /\ SaveFrame

\* fs.rename(indexPath, backupPath): the whole directory, lock file included
save_renameToBackup(p) ==
  /\ pc[p] = "s_rename1"
  /\ SaveRename(p, "prod", "backup", "s_rename2")
  /\ UNCHANGED << renamed, srvVars, buildVars >>

\* fs.rename(tempPath, indexPath)
save_renameToProd(p) ==
  /\ pc[p] = "s_rename2"
  /\ SaveRename(p, "tmp", "prod", "s_commit")
  /\ renamed' = [renamed EXCEPT ![p] = CanRename(fs, "tmp", "prod")]
  /\ UNCHANGED << srvVars, buildVars >>

\* a commit that records the stats but keeps the store it had
assignVectorStore_skipped(old, saved) == old

\* this.vectorStore = vectorStore, in save()
assignVectorStore(old, saved) == saved

\* this.vectorStore = vectorStore; this.stats = stats; releaseLock()
save_releaseLock(p) ==
  /\ pc[p] = "s_commit"
  /\ vectorStore' = [vectorStore EXCEPT ![p] =
                      assignVectorStore(@, [doc |-> arg[p], idx |-> arg[p]])]
  /\ stats' = [stats EXCEPT ![p] = arg[p]]
  /\ fs' = releaseLock(fs)
  /\ relAttempted' = [relAttempted EXCEPT ![p] = TRUE]
  /\ pc' = [pc EXCEPT ![p] = "s_emit"]
  /\ UNCHANGED << op, retries, arg, rd, err, emitted, nextGen, faults,
                  ran, attempts, wrote, acquired, pre, sidecar >>
  /\ UNCHANGED existsRet
  /\ UNCHANGED << renamed, srvVars, buildVars >>

\* this.emit('indexUpdated', stats); save returns.  emit() runs the listeners
\* synchronously: a listener of IndexWatcher calls reloadCallback(), whose
\* load() is entered before save() returns to its caller
save_emit(p) ==
  /\ pc[p] = "s_emit"
  /\ emitted' = [emitted EXCEPT ![p] = emit(@, arg[p])]
  /\ subscriber' = [subscriber EXCEPT ![p] = deliver(@)]
  /\ IF listeners[p] = 0
     THEN /\ err' = [err EXCEPT ![p] = "ok"]
          /\ pc' = [pc EXCEPT ![p] = "done"]
          /\ UNCHANGED << op, pre, caller >>
          /\ UNCHANGED << retries, arg, rd, attempts, wrote, acquired, relAttempted,
                          renamed >>
     ELSE \* the listener's load() starts with locals of its own
          /\ err' = [err EXCEPT ![p] = "none"]
          /\ pc' = [pc EXCEPT ![p] = "acq_mkdir"]
          /\ op' = [op EXCEPT ![p] = "load"]
          /\ pre' = [pre EXCEPT ![p] = Snapshot(p)]
          /\ caller' = [caller EXCEPT ![p] = "event"]
          /\ retries' = [retries EXCEPT ![p] = 0]
          /\ arg' = [arg EXCEPT ![p] = 0]
          /\ rd' = [rd EXCEPT ![p] = NoStore]
          /\ attempts' = [attempts EXCEPT ![p] = 0]
          /\ wrote' = [wrote EXCEPT ![p] = FALSE]
          /\ acquired' = [acquired EXCEPT ![p] = FALSE]
          /\ relAttempted' = [relAttempted EXCEPT ![p] = FALSE]
          /\ renamed' = [renamed EXCEPT ![p] = FALSE]
  /\ UNCHANGED << fs, vectorStore, stats, nextGen, faults, ran, sidecar >>
  /\ UNCHANGED existsRet
  /\ UNCHANGED << srv, watcher, listeners, fsPending, query, crawlInProgress,
                  crawl, closePending, parent, reply, startedEmpty, stoppedAt,
                  prevReload >>
  /\ UNCHANGED buildVars

\* the awaited filesystem calls of save() between acquireLock and the commit
SaveIoSteps ==
  { "s_tmpMkdir", "s_tmpWrite", "s_stats", "s_rmBackup", "s_rename1", "s_rename2" }

\* one of those calls rejects with an I/O error (EIO, ENOSPC, EACCES ...)
save_ioError(p) ==
  /\ pc[p] \in SaveIoSteps
  /\ faults < MaxFaults
  /\ faults' = faults + 1
  /\ Throw(p, "IoError")
  /\ UNCHANGED << fs, op, retries, arg, rd, vectorStore, stats, emitted, nextGen,
                  ran, attempts, wrote, acquired, relAttempted, pre, sidecar >>
  /\ UNCHANGED existsRet
  /\ UNCHANGED << renamed, srvVars, buildVars >>

\* ------------------------------------------------------------ environment
\* stats.json of the production directory is deleted or damaged from outside
\* the program (the case loadStats is written for)
SidecarDamage ==
  /\ CompleteGen(fs.prod)
  /\ \A p \in Procs : pc[p] = "idle"
  /\ \E c \in { NoFile, CorruptStats } : fs' = [fs EXCEPT !["prod"].stats = c]
  /\ UNCHANGED << nextGen, faults >>
  /\ UNCHANGED procVars
  /\ UNCHANGED << srvVars, buildVars >>

\* --------------------------------------------------------------- API server
\* the variables of the VectorStore and of its call in progress
storeVars == << vectorStore, stats, emitted >>
callVars ==
  << pc, op, retries, arg, rd, err, existsRet, ran, attempts, wrote, acquired,
     relAttempted, pre, sidecar, renamed >>

\* IndexWatcher.start() without the existsSync test
IndexWatcher_canStart_always(f) == TRUE

\* IndexWatcher.start(): if (!existsSync(indexPath)) { warn; return }
IndexWatcher_canStart(f) == existsSync(f, indexPath)

\* a watcher callback without try / catch: the rejection ends the process
catchReloadError_rethrow(e, s) == IF e = "ok" THEN s ELSE "exited"

\* the watcher callbacks: try { await reloadCallback() } catch { logger.error }
catchReloadError(e, s) == s

\* a retriever that looks the store up again when the chain runs
asRetriever_lookupLate(ref, current) == current

\* vectorStore.asRetriever(topK): bound to the store the handler obtained
asRetriever(ref, current) == ref

\* a trigger handler that never finds a crawl in progress
alreadyInProgress_never(flag) == FALSE

\* POST /trigger: if (crawlInProgress) throw new AppError(..., 409)
alreadyInProgress(flag) == flag

\* a 'close' handler that leaves the flag as it is
onClose_keepFlag(flag) == flag

\* crawlerProcess.on('close'): crawlInProgress = false
onClose(flag) == FALSE

\* GET /api/crawler/status
status(p) == [inProgress |-> crawlInProgress[p]]

\* main(): new Server(), then initialize(): indexExists(); without an index it
\* warns and goes on, with one it calls load()
Server_initialize(p) ==
  /\ srv[p] = "off"
  /\ pc[p] = "idle"
  /\ IF indexExists(fs)
     THEN /\ StartCall(p, "load")
          /\ caller' = [caller EXCEPT ![p] = "init"]
          /\ srv' = [srv EXCEPT ![p] = "init"]
          /\ UNCHANGED << arg, renamed, startedEmpty >>
     ELSE /\ srv' = [srv EXCEPT ![p] = "running"]
          /\ startedEmpty' = [startedEmpty EXCEPT ![p] = TRUE]
          /\ UNCHANGED << fs, faults, callVars, storeVars, caller >>
  /\ UNCHANGED << nextGen, watcher, listeners, subscriber, fsPending, query, crawlInProgress, crawl,
                  closePending, parent, reply, stoppedAt, prevReload >>
  /\ UNCHANGED buildVars

\* initialize() after its load(): a failed load makes main() exit(1); after a
\* successful one the IndexWatcher is constructed and start()ed, which
\* registers the fs.watch handle and the 'indexUpdated' listener unless the
\* index path does not exist
Server_initialize_loaded(p) ==
  /\ caller[p] = "init"
  /\ ReturnFrame(p)
  /\ caller' = [caller EXCEPT ![p] = "none"]
  /\ IF err[p] # "ok"
     THEN /\ srv' = [srv EXCEPT ![p] = "exited"]
          /\ UNCHANGED << fs, watcher, listeners >>
     ELSE /\ srv' = [srv EXCEPT ![p] = IF @ = "init" THEN "running" ELSE @]
          /\ IF IndexWatcher_canStart(fs)
             THEN /\ fs' = AddWatch(fs, "prod", p)
                  /\ listeners' = [listeners EXCEPT ![p] = @ + 1]
                  /\ watcher' = [watcher EXCEPT ![p] = "started"]
             ELSE /\ watcher' = [watcher EXCEPT ![p] = "idle"]
                  /\ UNCHANGED << fs, listeners >>
  /\ UNCHANGED << vectorStore, stats, emitted, ran, subscriber, fsPending, query,
                  crawlInProgress,
                  crawl, closePending, parent, reply, startedEmpty, stoppedAt,
                  prevReload >>
  /\ UNCHANGED buildVars

\* the fs.watch listener is called with ('change', 'stats.json') and awaits
\* reloadCallback(), i.e. vectorStoreManager.load()
watcher_onChange(p) ==
  /\ srv[p] \in { "running", "stopping" }
  /\ fsPending[p] > 0
  /\ fsPending' = [fsPending EXCEPT ![p] = @ - 1]
  /\ StartCall(p, "load")
  /\ caller' = [caller EXCEPT ![p] = "fs"]
  /\ UNCHANGED << arg, renamed, nextGen >>
  /\ UNCHANGED << srv, watcher, listeners, subscriber, query, crawlInProgress, crawl, closePending,
                  parent, reply, startedEmpty, stoppedAt, prevReload >>
  /\ UNCHANGED buildVars

\* the reloadCallback() awaited by a watcher callback has settled: the
\* callback logs the outcome and returns
watcher_callback_done(p) ==
  /\ caller[p] \in { "fs", "event" }
  /\ ReturnFrame(p)
  /\ caller' = [caller EXCEPT ![p] = "none"]
  /\ srv' = [srv EXCEPT ![p] = catchReloadError(err[p], @)]
  /\ prevReload' = [prevReload EXCEPT ![p] =
                      IF /\ err[p] = "ok"
                         /\ \A q \in Procs : op[q] # "save"
                         /\ vectorStore[p] = [doc |-> GenOf(fs.prod), idx |-> GenOf(fs.prod)]
                         /\ stats[p] = GenOf(fs.prod)
                      THEN [ok |-> TRUE, store |-> vectorStore[p], stats |-> stats[p],
                            gen |-> nextGen]
                      ELSE NoReload]
  /\ UNCHANGED << fs, vectorStore, stats, emitted, ran, watcher, listeners, subscriber, fsPending,
                  query, crawlInProgress, crawl, closePending, parent, reply,
                  startedEmpty, stoppedAt >>
  /\ UNCHANGED buildVars

\* vectorStoreManager.on('indexUpdated', listener) called by a component other
\* than the IndexWatcher (VectorStore extends EventEmitter)
on_indexUpdated(p) ==
  /\ srv[p] \in { "init", "running" }
  /\ ~subscriber[p].on
  /\ subscriber' = [subscriber EXCEPT ![p] = [@ EXCEPT !.on = TRUE, !.registered = TRUE]]
  /\ UNCHANGED << fs, nextGen, faults, callVars, storeVars >>
  /\ UNCHANGED << srv, caller, watcher, listeners, fsPending, query, crawlInProgress,
                  crawl, closePending, parent, reply, startedEmpty, stoppedAt,
                  prevReload >>
  /\ UNCHANGED buildVars

\* SIGTERM / SIGINT: Server.shutdown(): if (this.indexWatcher) stop(), which
\* closes the fs.watch handle if there is one and removes every
\* 'indexUpdated' listener of the VectorStore
Server_shutdown(p) ==
  /\ srv[p] \in { "init", "running" }
  /\ srv' = [srv EXCEPT ![p] = "stopping"]
  /\ IF watcher[p] = "none"
     THEN UNCHANGED << fs, watcher, listeners, subscriber, fsPending, stoppedAt >>
     ELSE /\ IF watcher[p] = "started"
             THEN /\ fs' = CloseWatch(fs, p)
                  /\ fsPending' = [fsPending EXCEPT ![p] = 0]
             ELSE UNCHANGED << fs, fsPending >>
          /\ listeners' = [listeners EXCEPT ![p] = 0]
          /\ subscriber' = [subscriber EXCEPT ![p] = removeAllListeners(@)]
          /\ watcher' = [watcher EXCEPT ![p] = "stopped"]
          /\ stoppedAt' = [stoppedAt EXCEPT ![p] = nextGen]
  /\ UNCHANGED << nextGen, faults, callVars, storeVars >>
  /\ UNCHANGED << caller, query, crawlInProgress, crawl, closePending, parent,
                  reply, startedEmpty, prevReload >>
  /\ UNCHANGED buildVars

\* process.exit(0) after shutdown(): whatever the process was doing ends
\* here, its memory is gone and the operating system closes its handles (a
\* lock file it had created stays, a crawler it had spawned runs on)
process_exit(p) ==
  /\ srv[p] = "stopping"
  /\ srv' = [srv EXCEPT ![p] = "exited"]
  /\ pc' = [pc EXCEPT ![p] = "exited"]
  /\ fs' = CloseWatch(fs, p)
  /\ op' = [op EXCEPT ![p] = "none"]
  /\ retries' = [retries EXCEPT ![p] = 0]
  /\ arg' = [arg EXCEPT ![p] = 0]
  /\ rd' = [rd EXCEPT ![p] = NoStore]
  /\ err' = [err EXCEPT ![p] = "none"]
  /\ existsRet' = [existsRet EXCEPT ![p] = "none"]
  /\ ran' = [ran EXCEPT ![p] = FALSE]
  /\ attempts' = [attempts EXCEPT ![p] = 0]
  /\ wrote' = [wrote EXCEPT ![p] = FALSE]
  /\ acquired' = [acquired EXCEPT ![p] = FALSE]
  /\ relAttempted' = [relAttempted EXCEPT ![p] = FALSE]
  /\ pre' = [pre EXCEPT ![p] = NoPre]
  /\ sidecar' = [sidecar EXCEPT ![p] = "none"]
  /\ renamed' = [renamed EXCEPT ![p] = FALSE]
  /\ vectorStore' = [vectorStore EXCEPT ![p] = NoStore]
  /\ stats' = [stats EXCEPT ![p] = 0]
  /\ emitted' = [emitted EXCEPT ![p] = << >>]
  /\ caller' = [caller EXCEPT ![p] = "none"]
  /\ watcher' = [watcher EXCEPT ![p] = "none"]
  /\ listeners' = [listeners EXCEPT ![p] = 0]
  /\ subscriber' = [subscriber EXCEPT ![p] = NoSubscriber]
  /\ fsPending' = [fsPending EXCEPT ![p] = 0]
  /\ query' = [query EXCEPT ![p] = NoQuery]
  /\ crawlInProgress' = [crawlInProgress EXCEPT ![p] = FALSE]
  /\ closePending' = [closePending EXCEPT ![p] = -1]
  /\ reply' = [reply EXCEPT ![p] = "none"]
  /\ startedEmpty' = [startedEmpty EXCEPT ![p] = FALSE]
  /\ stoppedAt' = [stoppedAt EXCEPT ![p] = 0]
  /\ prevReload' = [prevReload EXCEPT ![p] = NoReload]
  /\ parent' = [q \in Procs |-> IF parent[q] = p THEN 0 ELSE parent[q]]
  /\ UNCHANGED << nextGen, faults, crawl >>
  /\ UNCHANGED buildVars

\* GET /health: stats = getStats(); { indexLoaded: stats !== null, stats }
health(p) == [indexLoaded |-> stats[p] # 0, stats |-> stats[p]]

\* the variables a request handler of the API leaves alone
ApiFrame ==
  /\ UNCHANGED << fs, nextGen, faults, callVars, storeVars >>
  /\ UNCHANGED << srv, caller, watcher, listeners, subscriber, fsPending, startedEmpty, stoppedAt,
                  prevReload >>
  /\ UNCHANGED buildVars

\* String.prototype.trim() on a sequence of characters
RECURSIVE trimStart(_)
trimStart(t) == IF t # << >> /\ Head(t) = " " THEN trimStart(Tail(t)) ELSE t
RECURSIVE trimEnd(_)
trimEnd(t) ==
  IF t # << >> /\ t[Len(t)] = " " THEN trimEnd(SubSeq(t, 1, Len(t) - 1)) ELSE t
trim(t) == trimEnd(trimStart(t))

\* a test of the query that does not trim it
queryIsRequired_noTrim(b) == ~b.has \/ b.query = << >>

\* POST /: if (!query || query.trim().length === 0): undefined and '' are falsy
queryIsRequired(b) == ~b.has \/ b.query = << >> \/ Len(trim(b.query)) = 0

\* getVectorStore(): throws Error('Vector store not loaded') on a null store
getVectorStore_throws(store) == store = NoStore

\* POST /: catch (error) { logger.error; throw new AppError('Failed to
\* process query', 500) }, whatever was thrown inside the try
queryCatch(thrown) == AppError("Failed to process query", 500)

\* POST /api/query: an empty query is answered 400 before anything else;
\* getVectorStore() throwing inside the try is answered by the catch;
\* otherwise the chain is built on the store obtained and chain.call is
\* awaited
query_post(p) ==
  /\ srv[p] = "running"
  /\ query[p].st # "running"
  /\ \E b \in Bodies :
       query' = [query EXCEPT ![p] =
                   IF queryIsRequired(b)
                   THEN [NoQuery EXCEPT !.st = "rejected", !.body = b, !.cause = "empty",
                                        !.error = AppError("Query is required", 400)]
                   ELSE IF getVectorStore_throws(vectorStore[p])
                   THEN [NoQuery EXCEPT !.st = "failed", !.body = b,
                                        !.cause = "notLoaded",
                                        !.error = queryCatch("notLoaded")]
                   ELSE [NoQuery EXCEPT !.st = "running", !.body = b,
                                        !.ref = vectorStore[p], !.calls = 1]]
  /\ UNCHANGED << crawlInProgress, crawl, closePending, parent, reply >>
  /\ ApiFrame

\* chain.call({query}) settles: the retriever has searched its store and the
\* answer is sent, or the call rejected and the answer is 500
query_answer(p) ==
  /\ srv[p] \in { "running", "stopping" }
  /\ query[p].st = "running"
  /\ \E ok \in BOOLEAN :
       query' = [query EXCEPT ![p] =
                   IF ok THEN [@ EXCEPT !.st = "answered",
                                        !.used = asRetriever(query[p].ref, vectorStore[p])]
                   ELSE [@ EXCEPT !.st = "failed", !.ref = NoStore, !.cause = "chain",
                                  !.error = queryCatch("chain")]]
  /\ UNCHANGED << crawlInProgress, crawl, closePending, parent, reply >>
  /\ ApiFrame

\* POST /api/crawler/trigger: 409 while the flag is set; otherwise the flag
\* is set, `npm run crawler` is spawned and 202 is answered at once
crawler_trigger(p) ==
  /\ srv[p] = "running"
  /\ IF alreadyInProgress(crawlInProgress[p])
     THEN /\ reply' = [reply EXCEPT ![p] = "409"]
          /\ UNCHANGED << crawlInProgress, crawl, parent >>
     ELSE /\ \E q \in Crawlers :
               /\ crawl[q] = "off"
               /\ crawl' = [crawl EXCEPT ![q] = "running"]
               /\ parent' = [parent EXCEPT ![q] = p]
          /\ crawlInProgress' = [crawlInProgress EXCEPT ![p] = TRUE]
          /\ reply' = [reply EXCEPT ![p] = "202"]
  /\ UNCHANGED << query, closePending >>
  /\ ApiFrame

\* crawlerProcess.on('close', code => { crawlInProgress = false; ... })
crawler_close(p) ==
  /\ srv[p] \in { "running", "stopping" }
  /\ closePending[p] # -1
  /\ closePending' = [closePending EXCEPT ![p] = -1]
  /\ crawlInProgress' = [crawlInProgress EXCEPT ![p] = onClose(@)]
  /\ UNCHANGED << query, crawl, parent, reply >>
  /\ ApiFrame

\* ------------------------------------------------------------------ crawler
\* `npm run crawler` is started from a shell, cron or docker-compose
crawler_start(q) ==
  /\ crawl[q] = "off"
  /\ crawl' = [crawl EXCEPT ![q] = "running"]
  /\ UNCHANGED << query, crawlInProgress, closePending, parent, reply >>
  /\ ApiFrame

\* the process of crawler q ends with the given code: its parent, if it has
\* one, gets the 'close' event
CrawlerExit(q, code) ==
  /\ crawl' = [crawl EXCEPT ![q] = "off"]
  /\ closePending' = [r \in Procs |-> IF r = parent[q] /\ srv[r] # "exited" THEN code
                                      ELSE closePending[r]]
  /\ parent' = [parent EXCEPT ![q] = 0]

\* main() of the crawler throws before it saves (SharePoint, embeddings):
\* process.exit(1)
crawler_main_fail(q) ==
  /\ crawl[q] = "running"
  /\ pc[q] = "idle"
  /\ CrawlerExit(q, 1)
  /\ UNCHANGED << query, crawlInProgress, reply >>
  /\ ApiFrame

\* main() of the crawler: new VectorStore().save(vectorStore, stats)
crawler_main_save(q) ==
  /\ crawl[q] = "running"
  /\ nextGen <= MaxGen
  /\ StartCall(q, "save")
  /\ arg' = [arg EXCEPT ![q] = nextGen]
  /\ nextGen' = nextGen + 1
  /\ caller' = [caller EXCEPT ![q] = "crawler"]
  /\ UNCHANGED << renamed, srv, watcher, listeners, subscriber, fsPending, query, crawlInProgress,
                  crawl, closePending, parent, reply, startedEmpty, stoppedAt,
                  prevReload >>
  /\ UNCHANGED buildVars

\* main() of the crawler after save(): process.exit(0), or exit(1) from the
\* catch; the VectorStore of the process is gone with it
MainExit(q) ==
  /\ caller[q] = "crawler"
  /\ ReturnFrame(q)
  /\ caller' = [caller EXCEPT ![q] = "none"]
  /\ CrawlerExit(q, IF err[q] = "ok" THEN 0 ELSE 1)
  /\ vectorStore' = [vectorStore EXCEPT ![q] = NoStore]
  /\ stats' = [stats EXCEPT ![q] = 0]
  /\ emitted' = [emitted EXCEPT ![q] = << >>]
  /\ ran' = [ran EXCEPT ![q] = FALSE]
  /\ UNCHANGED << fs, srv, watcher, listeners, subscriber, fsPending, query, crawlInProgress, reply,
                  startedEmpty, stoppedAt, prevReload >>

crawler_main_exit(q) ==
  /\ MainExit(q)
  /\ UNCHANGED buildVars

\* stats.json of the production directory is rewritten in place from outside
\* the program: the one filesystem event the watcher reacts to
SidecarTouched ==
  /\ existsSync(fs, << "prod", "stats" >>)
  /\ Notify(fsPending, fs.prod) # fsPending
  /\ fsPending' = Notify(fsPending, fs.prod)
  /\ UNCHANGED << fs, nextGen, faults, callVars, storeVars >>
  /\ UNCHANGED << srv, caller, watcher, listeners, subscriber, query, crawlInProgress, crawl,
                  closePending, parent, reply, startedEmpty, stoppedAt,
                  prevReload >>
  /\ UNCHANGED buildVars

\* ---------------------------------------------------------- crawler: main()
\* what the collaborators will do with a document: fate "download":
\* downloadDocument throws; "extract": processDocument throws (parser error,
\* unsupported type, no text); "chunk": textSplitter.splitText throws; "ok":
\* splitText returns n segments (processDocument returns no empty content)
Fates == { "ok", "download", "extract", "chunk" }
DocIds == 1..MaxDocs
DocInputs ==
  { [id |-> d, fate |-> "ok", n |-> n] : d \in DocIds, n \in 1..MaxChunks }
    \cup { [id |-> d, fate |-> f, n |-> 0] : d \in DocIds, f \in Fates \ { "ok" } }

\* a batch of documents handed to the Indexer: metadata.id is unique in it
Batches ==
  { b \in UNION { [1..k -> DocInputs] : k \in 0..MaxDocs } :
      \A x, y \in DOMAIN b : x # y => b[x].id # b[y].id }

\* what spClient.listDocuments() returns: the files of the library
Listings == { b \in Batches : \A x \in DOMAIN b : b[x].id = x }

\* configSchema.faiss: chunkSize int().positive(), chunkOverlap
\* int().nonnegative(); the two are not compared
configSchema_faiss(raw) == raw.chunkSize > 0 /\ raw.chunkOverlap >= 0

\* a catch clause of main()'s loop that forgets the error
recordError_dropped(errors, doc) == errors

\* main(), catch of the loop: errors.push({filename, error, timestamp})
recordError(errors, doc) == Append(errors, doc.id)

\* Indexer.chunkDocument: one DocumentChunk per segment, chunkIndex its
\* position and totalChunks = textChunks.length
chunkDocument(doc) ==
  [k \in 1..doc.n |->
     [documentId |-> doc.id, chunkIndex |-> k - 1, totalChunks |-> doc.n]]

\* the loop of createIndex / addDocuments over a batch that chunks without
\* error: allChunks
RECURSIVE ChunksOf(_)
ChunksOf(docs) ==
  IF docs = << >> THEN << >>
  ELSE chunkDocument(Head(docs)) \o ChunksOf(Tail(docs))

\* a createIndex whose catch clause swallows the error and returns the
\* store it has
createIndex_catch_swallow(e) == "ok"

\* createIndex: catch (error) { logger.error; throw error }
createIndex_catch(e) == e

\* a statistic that counts the documents instead of their chunks
totalChunks_countsDocuments(docs) == Len(docs)

\* main(): processedDocuments.reduce((sum, doc) => sum + doc.chunks.length, 0)
RECURSIVE totalChunks(_)
totalChunks(docs) ==
  IF docs = << >> THEN 0 ELSE Len(Head(docs).chunks) + totalChunks(Tail(docs))

\* the variables the steps of main() before save() leave alone
MainFrame ==
  /\ UNCHANGED << fs, nextGen, faults, callVars, storeVars, index >>
  /\ UNCHANGED << srv, caller, watcher, listeners, subscriber, fsPending, query, crawlInProgress,
                  reply, startedEmpty, stoppedAt, prevReload >>

\* `npm run crawler`: the process starts and the import of shared/config runs
\* loadConfig() on CHUNK_SIZE and CHUNK_OVERLAP of the environment:
\* configSchema.parse throws on values the schema rejects, which ends the
\* process before main() is called
loadConfig(q) ==
  /\ crawl[q] = "off"
  /\ pc[q] = "idle"
  /\ nextGen <= MaxGen
  /\ \E size \in 0..MaxChunkSize, overlap \in -1..MaxChunkSize :
       LET raw == [chunkSize |-> size, chunkOverlap |-> overlap] IN
       IF configSchema_faiss(raw)
       THEN /\ job' = [job EXCEPT ![q] =
                         [NoJob EXCEPT !.st = "main", !.config = raw, !.fs0 = fs]]
            /\ crawl' = [crawl EXCEPT ![q] = "running"]
       ELSE /\ job' = [job EXCEPT ![q] =
                         [NoJob EXCEPT !.st = "exited", !.config = raw, !.fs0 = fs,
                                       !.cause = "config", !.code = 1]]
            /\ UNCHANGED crawl
  /\ UNCHANGED << closePending, parent >>
  /\ MainFrame

\* main(): spClient.initialize() reads the certificate file and
\* listDocuments() asks SharePoint for the files of the library; either
\* throws to main()'s catch
main_listDocuments(q) ==
  /\ job[q].st = "main"
  /\ \/ job' = [job EXCEPT ![q].st = "failed", ![q].cause = "list", ![q].listed = TRUE]
     \/ \E docs \in Listings :
          job' = [job EXCEPT ![q].st = "loop", ![q].documents = docs, ![q].i = 1,
                             ![q].listed = TRUE]
  /\ UNCHANGED << crawl, closePending, parent >>
  /\ MainFrame

\* one turn of `for (const docMetadata of documents)`: download and
\* processDocument; a throw of either is caught, counted and recorded, and
\* the loop goes on
main_processDocument(q) ==
  /\ job[q].st = "loop"
  /\ job[q].i <= Len(job[q].documents)
  /\ LET doc == job[q].documents[job[q].i] IN
       IF doc.fate \in { "download", "extract" }
       THEN job' = [job EXCEPT ![q].documentsSkipped = @ + 1,
                               ![q].errors = recordError(@, doc),
                               ![q].i = @ + 1]
       ELSE job' = [job EXCEPT ![q].processedDocuments =
                                 Append(@, [id |-> doc.id, fate |-> doc.fate,
                                            n |-> doc.n, chunks |-> << >>]),
                               ![q].documentsProcessed = @ + 1,
                               ![q].i = @ + 1]
  /\ UNCHANGED << crawl, closePending, parent >>
  /\ MainFrame

\* after the loop: new Indexer(), which constructs the
\* RecursiveCharacterTextSplitter from config.faiss.  The splitter is a
\* library class: given chunkOverlap >= chunkSize its constructor may throw
main_newIndexer(q) ==
  /\ job[q].st = "loop"
  /\ job[q].i > Len(job[q].documents)
  /\ \E throws \in BOOLEAN :
       /\ throws => job[q].config.chunkOverlap >= job[q].config.chunkSize
       /\ job' = IF throws
                 THEN [job EXCEPT ![q].st = "failed", ![q].cause = "indexer"]
                 ELSE [job EXCEPT ![q].st = "chunk", ![q].i = 1]
  /\ UNCHANGED << crawl, closePending, parent >>
  /\ MainFrame

\* createIndex, one turn of `for (const doc of documents)`: chunkDocument,
\* doc.chunks = chunks, the chunks are pushed to allChunks; a throw of
\* splitText is logged and rethrown by chunkDocument and by createIndex and
\* lands in main()'s catch
createIndex_chunkDocument(q) ==
  /\ job[q].st = "chunk"
  /\ job[q].i <= Len(job[q].processedDocuments)
  /\ LET doc == job[q].processedDocuments[job[q].i] IN
       IF doc.fate = "chunk"
       THEN job' = [job EXCEPT ![q].st = "failed", ![q].cause = "chunk"]
       ELSE job' = [job EXCEPT ![q].processedDocuments[job[q].i].chunks =
                                 chunkDocument(doc),
                               ![q].allChunks = @ \o chunkDocument(doc),
                               ![q].i = @ + 1]
  /\ UNCHANGED << crawl, closePending, parent >>
  /\ MainFrame

\* createIndex: await FaissStore.fromDocuments(allChunks, this.embeddings),
\* called once; the embedding provider answers or fails
createIndex_fromDocuments(q) ==
  /\ job[q].st = "chunk"
  /\ job[q].i > Len(job[q].processedDocuments)
  /\ \E e \in { "ok", "embed" } :
       job' = IF createIndex_catch(e) = "ok"
              THEN [job EXCEPT ![q].st = "built", ![q].store = job[q].allChunks,
                               ![q].embedCalls = @ + 1,
                               ![q].cause = IF e = "ok" THEN @ ELSE e]
              ELSE [job EXCEPT ![q].st = "failed", ![q].cause = e,
                               ![q].embedCalls = @ + 1]
  /\ UNCHANGED << crawl, closePending, parent >>
  /\ MainFrame

\* main(): the stats are computed and new VectorStore().save(vectorStore,
\* stats) is called
main_save(q) ==
  /\ job[q].st = "built"
  /\ nextGen <= MaxGen
  /\ StartCall(q, "save")
  /\ arg' = [arg EXCEPT ![q] = nextGen]
  /\ nextGen' = nextGen + 1
  /\ caller' = [caller EXCEPT ![q] = "crawler"]
  /\ job' = [job EXCEPT ![q].st = "saving", ![q].saveCalled = TRUE,
                        ![q].stats =
                          [totalDocuments |-> job[q].documentsProcessed,
                           totalChunks |-> totalChunks(job[q].processedDocuments)]]
  /\ UNCHANGED << renamed, srv, watcher, listeners, subscriber, fsPending, query, crawlInProgress,
                  crawl, closePending, parent, reply, startedEmpty, stoppedAt,
                  prevReload, index >>

\* main() after save(): process.exit(0), or exit(1) from the catch
main_exit(q) ==
  /\ job[q].st = "saving"
  /\ MainExit(q)
  /\ job' = [job EXCEPT ![q].st = "exited",
                        ![q].code = IF err[q] = "ok" THEN 0 ELSE 1]
  /\ UNCHANGED index

\* main()'s catch after a throw before save(): logger.error, process.exit(1)
main_catch(q) ==
  /\ job[q].st = "failed"
  /\ CrawlerExit(q, 1)
  /\ job' = [job EXCEPT ![q].st = "exited", ![q].code = 1]
  /\ MainFrame

\* ------------------------------------------------------------------ Indexer
\* chunkDocument throws for a document of the batch
ChunkingFails(docs) == \E k \in DOMAIN docs : docs[k].fate = "chunk"

\* the variables the Indexer leaves alone
IndexerFrame == UNCHANGED << fs, nextGen, faults, callVars, storeVars, srvVars, job >>

\* Indexer.createIndex(documents): every document is chunked, the chunks
\* are embedded and a new FaissStore is returned
Indexer_createIndex(docs, e) ==
  /\ ~ChunkingFails(docs)
  /\ createIndex_catch(e) = "ok"
  /\ index' = ChunksOf(docs)
  /\ IndexerFrame

\* Indexer.addDocuments(vectorStore, documents): the documents are chunked
\* as in createIndex and vectorStore.addDocuments(allChunks) appends them
Indexer_addDocuments(docs, e) ==
  /\ ~ChunkingFails(docs)
  /\ e = "ok"
  /\ Len(index) + Len(ChunksOf(docs)) <= MaxVectors
  /\ index' = index \o ChunksOf(docs)
  /\ IndexerFrame

\* ----------------------------------------------------------- specification
\* the steps inside load() and save(), whoever made the call
CallStep(p) ==
  \/ acquireLock_mkdir(p)
  \/ acquireLock_writeFile(p)
  \/ catch_releaseLock(p)
  \/ load_existsSync(p)
  \/ \E file \in { "doc", "idx" } : FaissStore_load_read(p, file)
  \/ load_loadStats(p)
  \/ loadStats_readFile(p)
  \/ load_releaseLock(p)
  \/ save_mkdirTemp(p)
  \/ \E file \in { "doc", "idx" } : FaissStore_save_write(p, file)
  \/ save_writeStats(p)
  \/ save_existsSync(p)
  \/ save_rmBackup(p)
  \/ save_renameToBackup(p)
  \/ save_renameToProd(p)
  \/ save_releaseLock(p)
  \/ save_emit(p)
  \/ save_ioError(p)

\* a process that calls the VectorStore directly
Step(p) ==
  \/ load(p)
  \/ save(p)
  \/ indexExists_call(p)
  \/ call_return(p)
  \/ CallStep(p)

Next == \E p \in Procs : Step(p)

Spec == Init /\ [][Next]_vars

\* the API server, the crawler runs it spawns or that are started from
\* outside, and the steps of their VectorStore calls
ServerStep(p) ==
  \/ Server_initialize(p)
  \/ Server_initialize_loaded(p)
  \/ watcher_onChange(p)
  \/ watcher_callback_done(p)
  \/ Server_shutdown(p)
  \/ process_exit(p)
  \/ query_post(p)
  \/ query_answer(p)
  \/ crawler_trigger(p)
  \/ crawler_close(p)

CrawlerStep(q) ==
  \/ crawler_start(q)
  \/ crawler_main_fail(q)
  \/ crawler_main_save(q)
  \/ crawler_main_exit(q)

NextServer ==
  \/ ServerStep(Server)
  \/ \E q \in Crawlers : CrawlerStep(q)
  \/ \E p \in Procs : CallStep(p)
  \/ SidecarTouched

SpecServer == Init /\ [][NextServer]_vars

\* what the event loops and the operating system do without being asked:
\* every started call, callback and process runs on; requests, signals,
\* crawler starts from outside and touches of the sidecar may never come
FairServer ==
  /\ SpecServer
  /\ \A p \in Procs : WF_vars(CallStep(p))
  /\ WF_vars(Server_initialize(Server))
  /\ WF_vars(Server_initialize_loaded(Server))
  /\ WF_vars(watcher_onChange(Server))
  /\ WF_vars(watcher_callback_done(Server))
  /\ WF_vars(process_exit(Server))
  /\ WF_vars(query_answer(Server))
  /\ WF_vars(crawler_close(Server))
  /\ \A q \in Crawlers : WF_vars(crawler_main_fail(q) \/ crawler_main_save(q))
  /\ \A q \in Crawlers : WF_vars(crawler_main_exit(q))

\* the crawl trigger of the API server alone: the server starts, answers
\* trigger requests and handles the 'close' of its crawler children; crawler
\* runs are also started from outside
TriggerStep(p) ==
  \/ Server_initialize(p)
  \/ Server_initialize_loaded(p)
  \/ crawler_trigger(p)
  \/ crawler_close(p)

NextTrigger ==
  \/ TriggerStep(Server)
  \/ \E q \in Crawlers : CrawlerStep(q)
  \/ \E p \in Procs : CallStep(p)

SpecTrigger == Init /\ [][NextTrigger]_vars

\* a process that has something to run runs something: the server its calls
\* and event handlers, a crawler its main()
FairTrigger ==
  /\ SpecTrigger
  /\ WF_vars(CallStep(Server) \/ Server_initialize_loaded(Server) \/ crawler_close(Server))
  /\ \A q \in Crawlers :
       WF_vars(CallStep(q) \/ crawler_main_fail(q) \/ crawler_main_save(q)
                 \/ crawler_main_exit(q))

\* a caller of the Indexer: createIndex builds a store from a batch,
\* addDocuments appends the chunks of a batch to the store it is given; both
\* throw, leaving the store as it was, when splitText or the embedding fails
NextIndexer ==
  \E docs \in Batches, e \in { "ok", "embed" } :
    \/ Indexer_createIndex(docs, e)
    \/ Indexer_addDocuments(docs, e)

SpecIndexer == Init /\ [][NextIndexer]_vars

\* the steps inside save()
SaveStep(p) ==
  \/ acquireLock_mkdir(p)
  \/ acquireLock_writeFile(p)
  \/ catch_releaseLock(p)
  \/ save_mkdirTemp(p)
  \/ \E file \in { "doc", "idx" } : FaissStore_save_write(p, file)
  \/ save_writeStats(p)
  \/ save_existsSync(p)
  \/ save_rmBackup(p)
  \/ save_renameToBackup(p)
  \/ save_renameToProd(p)
  \/ save_releaseLock(p)
  \/ save_emit(p)
  \/ save_ioError(p)

\* crawler runs on their own, from the start of the process to its exit,
\* with the documents they find and what happens to each
MainStep(q) ==
  \/ loadConfig(q)
  \/ main_listDocuments(q)
  \/ main_processDocument(q)
  \/ main_newIndexer(q)
  \/ createIndex_chunkDocument(q)
  \/ createIndex_fromDocuments(q)
  \/ main_save(q)
  \/ main_exit(q)
  \/ main_catch(q)

NextCrawl == \E q \in Crawlers : MainStep(q) \/ SaveStep(q)

SpecCrawl == Init /\ [][NextCrawl]_vars

\* one process that owns a VectorStore with an IndexWatcher and another
\* subscriber on it: it saves generations, starts the server on them,
\* registers the subscriber and stops the watcher
SubscriberStep(p) ==
  \/ Server_initialize(p)
  \/ Server_initialize_loaded(p)
  \/ watcher_callback_done(p)
  \/ Server_shutdown(p)
  \/ on_indexUpdated(p)
  \/ save(p)
  \/ call_return(p)
  \/ CallStep(p)

NextSubscribers == SubscriberStep(Server)

SpecSubscribers == Init /\ [][NextSubscribers]_vars

\* the same program on a disk whose stats sidecar can be damaged
NextDamage == Next \/ SidecarDamage

SpecDamage == Init /\ [][NextDamage]_vars

\* -------------------------------------------------------------- properties
\* the call of p in progress (or just finished) took the lock and has not yet
\* run its own releaseLock
Holding(p) == acquired[p] /\ ~relAttempted[p]

\* no process other than p has ever called load() or save()
Alone(p) == \A q \in Procs \ {p} : ~ran[q]

\* C1: once the production path holds a complete generation, every later step
\* (the single filesystem steps of a save included) leaves a complete
\* generation there: it is never absent, empty or mixed.
C1_ProductionAlwaysComplete ==
  [][CompleteGen(fs.prod) => CompleteGen(fs'.prod)]_vars

\* C2: a load() that began while a complete generation was in production never
\* finds the directory absent or without its index files, and what it returns
\* is one generation (docstore and index of the same save).
C2_LoadSeesOneGeneration ==
  \A p \in Procs :
    (op[p] = "load" /\ pre[p].gen # 0) =>
      /\ err[p] \notin { "IndexNotFound", "FaissLoadError" }
      /\ (err[p] = "ok" => vectorStore[p].doc = vectorStore[p].idx)

\* C3: at most one process at a time is between its successful acquireLock and
\* its own releaseLock.
C3_MutualExclusion ==
  Cardinality({ p \in Procs : Holding(p) }) <= 1

\* C4: lock creation is exclusive (it succeeds only on a free lock path and
\* leaves the creator's token there); a process whose earlier attempts hit a
\* token succeeds only once no other process holds the lock; and the timeout
\* error is thrown only after MaxRetries conflicts.
C4_ExclusiveCreateThenWaitOrTimeout ==
  [][\A p \in Procs :
       /\ (~acquired[p] /\ acquired'[p]) =>
            /\ ~existsSync(fs, lockFilePath)
            /\ fs'.prod.lock = p
            /\ \A q \in Procs \ {p} : ~Holding(q)
       /\ (err[p] # "LockTimeout" /\ err'[p] = "LockTimeout") =>
            retries'[p] = MaxRetries]_vars

C6_FailedSaveNotApplied ==
  \A p \in Procs :
    (op[p] = "save" /\ pc[p] = "done" /\ err[p] # "ok" /\ Alone(p)) =>
      /\ GenOf(fs.prod) = pre[p].gen
      /\ vectorStore[p] = pre[p].store
      /\ stats[p] = pre[p].stats
      /\ Len(emitted[p]) = pre[p].emits

\* C7: a save() all of whose creation attempts hit an existing token never
\* gets the lock and writes nothing to the temp, backup or production
\* generation; after MaxRetries such attempts, and only then, it fails with
\* the lock-timeout error.
C7_StaleLockTimesOut ==
  \A p \in Procs :
    op[p] = "save" =>
      /\ attempts[p] = retries[p] => (~acquired[p] /\ ~wrote[p])
      /\ err[p] = "LockTimeout" =>
           (attempts[p] = MaxRetries /\ retries[p] = MaxRetries /\ ~acquired[p] /\ ~wrote[p])
      /\ retries[p] = MaxRetries => err[p] = "LockTimeout"

\* a save() has just timed out on the token of a crashed writer
C7_Witness ==
  \E p \in Procs :
    /\ op[p] = "save" /\ pc[p] = "catch" /\ err[p] = "LockTimeout"
    /\ attempts[p] = MaxRetries
    /\ fs.prod.lock = StalePid
    /\ ~fs.tmp.exists

\* C8: a load() called when the production path does not exist (no other
\* process ever ran) fails with the index-not-found error, and indexExists()
\* is false afterwards as it was before.
C8_LoadOfAbsentPathIsNotFound ==
  \A p \in Procs :
    (op[p] = "load" /\ pc[p] = "done" /\ ~pre[p].exists /\ Alone(p)) =>
      /\ err[p] = "IndexNotFound"
      /\ ~indexExists(fs)

\* C9: a load() that succeeded and found the stats sidecar missing or
\* unparsable leaves this.stats null.
C9_DamagedSidecarGivesNullStats ==
  \A p \in Procs :
    (op[p] = "load" /\ pc[p] = "done" /\ err[p] = "ok"
       /\ sidecar[p] \in { "missing", "corrupt" }) =>
      stats[p] = 0

\* C10: indexExists() returns true exactly when the production path exists and
\* holds docstore.json (so false for an empty directory or one that holds
\* only a lock token).
C10_IndexExistsIffDocstore ==
  [][\A p \in Procs :
       (op[p] # "indexExists" /\ op'[p] = "indexExists") =>
         /\ existsRet'[p] = "true" <=> (fs.prod.exists /\ fs.prod.doc # NoFile)
         /\ (fs.prod.exists /\ fs.prod.doc = NoFile) => existsRet'[p] = "false"]_vars

\* indexExists() has answered false on a directory that holds a lock token only
C10_Witness ==
  \E p \in Procs :
    /\ op[p] = "indexExists" /\ existsRet[p] = "false"
    /\ pre[p].exists
    /\ fs.prod.exists /\ fs.prod.lock # NoFile /\ fs.prod.doc = NoFile

\* C11: a save() has emitted exactly one more 'indexUpdated' than there were
\* when it was called if it succeeded and none if it has not (or not yet);
\* the one it emitted carries the stats it saved, and when it is emitted the
\* temp directory has been renamed into production, this.vectorStore and
\* this.stats hold what was saved and releaseLock has run.
C11_EmitOnceAfterCommit ==
  \A p \in Procs :
    op[p] = "save" =>
      /\ Len(emitted[p]) = pre[p].emits + (IF err[p] = "ok" THEN 1 ELSE 0)
      /\ err[p] = "ok" =>
           /\ emitted[p][Len(emitted[p])] = arg[p]
           /\ renamed[p]
           /\ relAttempted[p]
           /\ vectorStore[p] = [doc |-> arg[p], idx |-> arg[p]]
           /\ stats[p] = arg[p]

\* the second successful save() of one process has returned
C11_Witness ==
  \E p \in Procs :
    /\ op[p] = "save" /\ pc[p] = "done" /\ err[p] = "ok"
    /\ Len(emitted[p]) = 2

\* C12: whenever a crawler process has completed a successful save() of
\* generation g while the API server is running with a started watcher, the
\* server's reload runs and the server comes to hold generation g or a later
\* one (unless it is shut down first).
C12_SaveLeadsToReload ==
  \A g \in 1..MaxGen :
    (/\ srv[Server] = "running" /\ watcher[Server] = "started"
     /\ \E q \in Crawlers : op[q] = "save" /\ pc[q] = "done" /\ err[q] = "ok" /\ arg[q] = g)
      ~> (\/ srv[Server] # "running"
          \/ (vectorStore[Server].doc >= g /\ vectorStore[Server].idx >= g))

\* C13: when the load() behind a watcher callback has failed, the callback
\* returns without ending or otherwise changing the server, and
\* this.vectorStore is the store that was loaded before the reload began
\* (never null), so queries are still answered from it.
C13_FailedReloadKeepsGeneration ==
  [][\A p \in Procs :
       (caller[p] \in { "fs", "event" } /\ pc[p] = "done" /\ err[p] # "ok") =>
         /\ vectorStore[p] = pre[p].store
         /\ vectorStore[p] # NoStore
         /\ pc'[p] = "idle" => (srv'[p] = srv[p] /\ vectorStore'[p] = vectorStore[p])]_vars

\* a reload started by the fs.watch listener has failed while the server
\* holds generation 1
C13_Witness ==
  \E p \in Procs :
    /\ caller[p] = "fs" /\ pc[p] = "done" /\ err[p] \notin { "none", "ok" }
    /\ srv[p] = "running"
    /\ vectorStore[p] = [doc |-> 1, idx |-> 1]

\* C14: a query handler gets the store that is current when it asks, and the
\* chain it awaits searches exactly the store it got, whatever reload swaps
\* this.vectorStore meanwhile; and while the server lives, a loaded
\* this.vectorStore is only ever replaced by another loaded store, never by
\* null.
C14_QueryKeepsItsGeneration ==
  [][\A p \in Procs :
       /\ (query[p].st # "running" /\ query'[p].st = "running") =>
            /\ vectorStore[p] # NoStore
            /\ query'[p].ref = vectorStore[p]
       /\ (query[p].st = "running" /\ query'[p].st = "answered") =>
            query'[p].used = query[p].ref
       /\ (srv'[p] \in { "running", "stopping" } /\ vectorStore[p] # NoStore) =>
            vectorStore'[p] # NoStore]_vars

\* a query that got generation 1 was answered from it after a reload had
\* swapped in generation 2
C14_Witness ==
  \E p \in Procs :
    /\ query[p].st = "answered"
    /\ query[p].used = [doc |-> 1, idx |-> 1]
    /\ vectorStore[p] = [doc |-> 2, idx |-> 2]

\* C15: when a reload callback ends and the reload callback before it had
\* succeeded in loading the generation in production, with no save() in
\* progress when that one ended and none started since, this one has
\* succeeded too and this.vectorStore and this.stats are what they were after
\* the first.
C15_ReloadIdempotent ==
  [][\A p \in Procs :
       (/\ caller[p] \in { "fs", "event" } /\ pc[p] = "done" /\ pc'[p] = "idle"
        /\ prevReload[p].ok /\ prevReload[p].gen = nextGen) =>
         /\ err[p] = "ok"
         /\ vectorStore[p] = prevReload[p].store
         /\ stats[p] = prevReload[p].stats]_vars

\* the second of two reloads with no save in between has succeeded
C15_Witness ==
  \E p \in Procs :
    /\ caller[p] = "fs" /\ pc[p] = "done" /\ err[p] = "ok"
    /\ prevReload[p].ok /\ prevReload[p].gen = nextGen
    /\ vectorStore[p] = prevReload[p].store

\* C16: once IndexWatcher.stop() has run, the process has no fs.watch handle
\* on any directory, no 'indexUpdated' listener and no filesystem event
\* waiting for its listener, and no step after that starts a reload callback.
C16_StoppedWatcherNeverReloads ==
  /\ [](\A p \in Procs :
          watcher[p] = "stopped" =>
            /\ \A dir \in DOMAIN fs : p \notin fs[dir].watchers
            /\ listeners[p] = 0
            /\ fsPending[p] = 0)
  /\ [][\A p \in Procs :
          watcher[p] = "stopped" =>
            ~(caller[p] \notin { "fs", "event" } /\ caller'[p] \in { "fs", "event" })]_vars

\* the watcher was started and then stopped, and a save() that began after
\* the stop has published its generation while the process is still there
C16_Witness ==
  \E p \in Procs :
    /\ watcher[p] = "stopped" /\ srv[p] = "stopping"
    /\ stoppedAt[p] > 0
    /\ CompleteGen(fs.prod) /\ GenOf(fs.prod) >= stoppedAt[p]
    /\ vectorStore[p] # NoStore /\ vectorStore[p].doc < GenOf(fs.prod)

\* C17: IndexWatcher.start() called while the production path does not exist
\* returns normally (the server goes on running) and registers nothing: no
\* fs.watch handle, no 'indexUpdated' listener, and the watcher is not
\* started.
C17_StartOnAbsentPathIsNoOp ==
  [][\A p \in Procs :
       (/\ caller[p] = "init" /\ pc[p] = "done" /\ err[p] = "ok" /\ pc'[p] = "idle"
        /\ ~existsSync(fs, indexPath)) =>
         /\ fs' = fs
         /\ listeners'[p] = listeners[p]
         /\ watcher'[p] # "started"
         /\ srv'[p] = "running" \/ srv'[p] = "stopping"]_vars

\* start() has returned early: the server runs with a loaded store and
\* without a watcher
C17_Witness ==
  \E p \in Procs :
    /\ watcher[p] = "idle" /\ srv[p] = "running"
    /\ listeners[p] = 0
    /\ \A dir \in DOMAIN fs : p \notin fs[dir].watchers
    /\ vectorStore[p] # NoStore

\* C18: a server that found no index when it started runs with no store
\* loaded and answers no query from a store; and once a complete generation
\* is in production, that server (unless it is shut down) comes to have a
\* store loaded.
C18_ServerStartedEmptyLoadsFirstGeneration ==
  /\ [](\A p \in Procs :
          (startedEmpty[p] /\ vectorStore[p] = NoStore) =>
            (srv[p] \in { "running", "stopping" }
               /\ query[p].st \in { "none", "rejected", "failed" }))
  /\ \A p \in Procs :
       (startedEmpty[p] /\ srv[p] = "running" /\ CompleteGen(fs.prod))
         ~> (srv[p] # "running" \/ vectorStore[p] # NoStore)

\* C19: an API process has at most one live crawler child, and its flag is
\* set while it has one; while the flag is set no step spawns a crawler for
\* it, and a trigger answered then is answered 409 and changes no crawler.
C19_OneCrawlAtATime ==
  /\ [](\A p \in Procs :
          LET children == { q \in Crawlers : crawl[q] = "running" /\ parent[q] = p }
          IN  /\ Cardinality(children) <= 1
              /\ children # {} => crawlInProgress[p])
  /\ [][\A p \in Procs :
          (crawlInProgress[p] /\ srv'[p] # "exited") =>
            /\ \A q \in Crawlers : parent'[q] = p => parent[q] = p
            /\ reply'[p] # reply[p] => (reply'[p] = "409" /\ crawl' = crawl)]_vars

\* a trigger was rejected while the crawler spawned by the trigger before it
\* is running
C19_Witness ==
  \E p \in Procs :
    /\ reply[p] = "409" /\ crawlInProgress[p]
    /\ \E q \in Crawlers : crawl[q] = "running" /\ parent[q] = p /\ op[q] = "save"

\* C20: a flag that is set is eventually cleared: the crawler spawned by the
\* accepted trigger terminates, and once its 'close' event (exit code 0 or 1)
\* is waiting, the handler clears the flag; after the handler ran the status
\* endpoint reports inProgress = false; and a trigger answered while the flag
\* is clear is accepted (202) and sets the flag.
C20_FlagEventuallyCleared ==
  /\ \A p \in Procs : crawlInProgress[p] ~> ~crawlInProgress[p]
  /\ \A p \in Procs, code \in { 0, 1 } :
       (closePending[p] = code) ~> (closePending[p] = -1 /\ ~crawlInProgress[p])
  /\ [][\A p \in Procs :
          /\ (closePending[p] # -1 /\ closePending'[p] = -1) =>
               (status(p).inProgress = FALSE)'
          /\ (~crawlInProgress[p] /\ reply'[p] # reply[p] /\ srv'[p] # "exited") =>
               (reply'[p] = "202" /\ crawlInProgress'[p])]_vars

\* the 'close' of a crawler that saved and exited with code 0 has been
\* handled, and the trigger after it was accepted
C20_Witness ==
  \E p \in Procs :
    /\ reply[p] = "202" /\ crawlInProgress[p]
    /\ \E q \in Crawlers : crawl[q] = "running" /\ parent[q] = p /\ pc[q] = "idle"
    /\ CompleteGen(fs.prod) /\ nextGen > 1
    /\ closePending[p] = -1

\* ------------------------------------------------------- the crawler's build
\* the documents of a listing whose download or extraction fails / succeeds
FailedDocs(docs) == SelectSeq(docs, LAMBDA d : d.fate \in { "download", "extract" })
GoodDocs(docs) == SelectSeq(docs, LAMBDA d : d.fate \notin { "download", "extract" })
\* main() has listed the documents and its loop over them is over
LoopDone(j) ==
  /\ j.listed
  /\ j.cause # "list"
  /\ j.st = "loop" => j.i > Len(j.documents)
\* main() has got a store from createIndex
Built(j) == j.st \in { "built", "saving" } \/ (j.st = "exited" /\ j.saveCalled)

\* C21: a crawl over N listed documents of which K fail download or
\* extraction goes through all N: when the loop is over
\* documentsProcessed + documentsSkipped = N, there are exactly K errors, one
\* per failed document in listing order, and the store createIndex returns
\* holds the chunks of exactly the N-K other documents.
C21_PartialFailureContained ==
  \A q \in Crawlers :
    LET j == job[q]
        failed == FailedDocs(j.documents)
        good == GoodDocs(j.documents)
    IN  /\ LoopDone(j) =>
             /\ j.documentsProcessed + j.documentsSkipped = Len(j.documents)
             /\ j.documentsProcessed = Len(good)
             /\ j.errors = [k \in 1..Len(failed) |-> failed[k].id]
        /\ Built(j) =>
             /\ j.store = ChunksOf(good)
             /\ { j.store[k].documentId : k \in DOMAIN j.store }
                  = { good[k].id : k \in DOMAIN good }

\* a crawl of two documents, the first of which failed, has saved a
\* generation made of the second and exited with 0
C21_Witness ==
  \E q \in Crawlers :
    /\ job[q].st = "exited"
    /\ job[q].code = 0
    /\ Len(job[q].documents) = 2
    /\ job[q].documents[1].fate \in { "download", "extract" }
    /\ Len(job[q].errors) = 1
    /\ job[q].documentsProcessed = 1
    /\ job[q].store # << >>

\* C22: when chunking fails for one document of the batch and the others
\* chunk and embed without error, the crawl still calls save() with a store
\* made of the others, and the failure is in its error list.
C22_ChunkFailureExcludesOnlyThatDocument ==
  \A q \in Crawlers :
    LET j == job[q]
        bad == SelectSeq(j.processedDocuments, LAMBDA d : d.fate = "chunk")
    IN  (/\ j.st = "exited"
         /\ j.cause = "chunk"
         /\ Len(bad) = 1
         /\ \E k \in DOMAIN j.processedDocuments : j.processedDocuments[k].fate = "ok") =>
          /\ j.saveCalled
          /\ j.store # << >>
          /\ \E k \in DOMAIN j.errors : j.errors[k] = bad[1].id

\* C23: when the embedding provider fails in createIndex, FaissStore
\* .fromDocuments has been called once and not again, the crawl ends with
\* exit code 1 without calling save(), and the production, backup and temp
\* paths and the lock are what they were when the crawl started.
C23_EmbeddingFailureLeavesDiskAlone ==
  \A q \in Crawlers :
    job[q].cause = "embed" =>
      /\ job[q].st \in { "failed", "exited" }
      /\ job[q].st = "exited" => job[q].code = 1
      /\ job[q].embedCalls = 1
      /\ ~job[q].saveCalled
      /\ op[q] # "save"
      /\ fs = job[q].fs0

\* a crawl whose embedding call failed has exited, over a production
\* generation saved by an earlier crawl
C23_Witness ==
  \E q \in Crawlers :
    /\ job[q].cause = "embed"
    /\ job[q].st = "exited"
    /\ job[q].allChunks # << >>
    /\ CompleteGen(fs.prod)

\* the sum of the segment counts of a sequence of documents
RECURSIVE SegmentSum(_)
SegmentSum(docs) == IF docs = << >> THEN 0 ELSE Head(docs).n + SegmentSum(Tail(docs))

\* C25: the stats a crawl hands to save(): totalChunks is the sum of the
\* chunk counts of the documents that went into the store and is the number
\* of vectors of the store, and totalDocuments is the number of documents
\* that have chunks in the store.
C25_SavedStatsMatchGeneration ==
  \A q \in Crawlers :
    job[q].saveCalled =>
      /\ job[q].stats.totalChunks = SegmentSum(GoodDocs(job[q].documents))
      /\ job[q].stats.totalChunks = Len(job[q].store)
      /\ job[q].stats.totalDocuments
           = Cardinality({ job[q].store[k].documentId : k \in DOMAIN job[q].store })

\* a crawl has saved two documents with three chunks in all and exited with 0
C25_Witness ==
  \E q \in Crawlers :
    /\ job[q].st = "exited"
    /\ job[q].code = 0
    /\ job[q].stats = [totalDocuments |-> 2, totalChunks |-> 3]
    /\ CompleteGen(fs.prod)

\* ---------------------------------------------------------------- Indexer
\* C24: in the store produced by any sequence of createIndex and
\* addDocuments calls, every chunk's totalChunks is the number of chunks of
\* the store with its documentId, and its chunkIndex is below its totalChunks.
C24_TotalChunksCountsDocumentChunks ==
  \A k \in DOMAIN index :
    /\ index[k].totalChunks
         = Cardinality({ m \in DOMAIN index : index[m].documentId = index[k].documentId })
    /\ index[k].chunkIndex < index[k].totalChunks

\* ------------------------------------------------------------------ queries
\* a request body whose query is missing, empty or made of whitespace only
BlankQuery(b) == ~b.has \/ \A k \in DOMAIN b.query : b.query[k] = " "

\* C26: a query whose text is missing, empty or whitespace-only is answered
\* with 400 'Query is required'; the handler has then neither obtained the
\* store nor called the chain (no embedding, no answer generation), whether
\* a store is loaded or not.  A query with any other text is not rejected.
C26_EmptyQueryRejectedFirst ==
  \A p \in Procs :
    query[p].st # "none" =>
      IF BlankQuery(query[p].body)
      THEN /\ query[p].st = "rejected"
           /\ query[p].error = AppError("Query is required", 400)
           /\ query[p].ref = NoStore
           /\ query[p].used = NoStore
           /\ query[p].calls = 0
      ELSE query[p].st # "rejected"

\* a whitespace-only query was rejected by a server that has a store loaded
C26_Witness ==
  \E p \in Procs :
    /\ query[p].st = "rejected"
    /\ query[p].body = [has |-> TRUE, query |-> << " " >>]
    /\ vectorStore[p] # NoStore
    /\ srv[p] = "running"

\* C27: a non-empty query that finds no store loaded makes no chain call and
\* is answered with an error that differs from the one answered when
\* embedding, retrieval or answer generation fails.
C27_IndexUnavailableIsDistinct ==
  \A p \in Procs :
    (query[p].st = "failed" /\ query[p].cause = "notLoaded") =>
      /\ query[p].calls = 0
      /\ query[p].error # queryCatch("chain")

\* ------------------------------------------------------------------ readers
\* the files of a directory other than a lock token
Artifacts(d) == [exists |-> d.exists, doc |-> d.doc, idx |-> d.idx, stats |-> d.stats]

\* C28: no step of the API server process (start-up load, reload, query,
\* trigger, shutdown) creates, deletes, renames or changes the production,
\* backup or temp directory or a file of a generation in them; all it does
\* on disk is create and remove the lock token of the production directory.
C28_ReaderLeavesIndexAlone ==
  [][(CallStep(Server) \/ ServerStep(Server)) =>
       \A dir \in DOMAIN fs :
         /\ Artifacts(fs'[dir]) = Artifacts(fs[dir])
         /\ dir # "prod" => fs'[dir].lock = fs[dir].lock]_vars

\* C29: a load() of the API server (start-up load or reload) never finds
\* the lock taken and waits for it: its acquireLock never retries.
C29_ReadersNeverWaitForLock ==
  \A p \in Procs :
    (srv[p] \in { "init", "running", "stopping" } /\ op[p] = "load") => retries[p] = 0

\* C30: a crawler started with chunkOverlap >= chunkSize is stopped as a
\* configuration error before any I/O: it asks SharePoint for nothing (no
\* listing, no download) and the index paths stay as they were.
C30_InvalidChunkingRejectedBeforeIO ==
  \A q \in Crawlers :
    (job[q].st # "off" /\ job[q].config.chunkOverlap >= job[q].config.chunkSize) =>
      /\ job[q].cause \in { "none", "config" }
      /\ ~job[q].listed
      /\ job[q].documents = << >>
      /\ job[q].st \in { "main", "exited" }
      /\ fs = job[q].fs0

\* p's call is inside acquireLock
InAcquire(p) == pc[p] \in { "acq_mkdir", "acq_create" }

\* C31: acquireLock makes at most MaxRetries creation attempts; the attempt
\* that creates the token is its last one and returns to load()/save(); an
\* attempt that hits an existing token counts one retry and throws the
\* lock-timeout error exactly when it was attempt number MaxRetries (all of
\* them having hit a token), otherwise loops; any other creation error is
\* thrown at once, without a retry.
C31_AcquireLockBoundedAttempts ==
  [][\A p \in Procs :
       /\ attempts'[p] <= MaxRetries
       /\ (InAcquire(p) => (~acquired[p] /\ attempts[p] = retries[p]))
       /\ (attempts'[p] = attempts[p] + 1) =>
            /\ pc[p] = "acq_create"
            /\ writeFile_wx(fs) = "ok" =>
                 /\ acquired'[p] /\ fs'.prod.lock = p
                 /\ ~InAcquire(p)' /\ pc'[p] # "catch"
                 /\ retries'[p] = retries[p] /\ err'[p] = err[p]
            /\ writeFile_wx(fs) = "EEXIST" =>
                 /\ ~acquired'[p] /\ fs' = fs
                 /\ retries'[p] = retries[p] + 1
                 /\ IF attempts'[p] = MaxRetries
                    THEN pc'[p] = "catch" /\ err'[p] = "LockTimeout"
                    ELSE pc'[p] = "acq_mkdir" /\ err'[p] = err[p]
            /\ writeFile_wx(fs) = "ENOENT" =>
                 /\ ~acquired'[p] /\ fs' = fs
                 /\ retries'[p] = retries[p]
                 /\ pc'[p] = "catch" /\ err'[p] = "FsError"
       /\ (err[p] # "LockTimeout" /\ err'[p] = "LockTimeout") =>
            /\ attempts'[p] = attempts[p] + 1
            /\ writeFile_wx(fs) = "EEXIST"
            /\ retries'[p] = MaxRetries]_vars

\* a load() whose first attempt hit the token of a running save() and whose
\* second attempt found the directory renamed away has thrown that error
C31_Witness ==
  \E p \in Procs :
    /\ op[p] = "load" /\ pc[p] = "catch" /\ err[p] = "FsError"
    /\ ~acquired[p] /\ attempts[p] = 2 /\ retries[p] = 1

\* C32: after a successful save() (no other process ever ran) the temp path
\* does not exist, and a backup path exists only if a complete generation was
\* in production when the save was called, in which case it holds exactly
\* that generation; so a backup that is present is a complete generation.
C32_BackupIsPreviousGeneration ==
  \A p \in Procs :
    (op[p] = "save" /\ pc[p] = "done" /\ err[p] = "ok" /\ Alone(p)) =>
      /\ ~existsSync(fs, tempPath)
      /\ existsSync(fs, backupPath) =>
           /\ pre[p].gen # 0
           /\ GenOf(fs.backup) = pre[p].gen
           /\ CompleteGen(fs.backup)

\* C33: the releaseLock of a process removes no token but its own: when the
\* lock path holds the token of another process, a releaseLock step (on the
\* normal path or in the catch of a load() or save() whose acquireLock timed
\* out or failed) leaves that token where it is.
C33_ReleaseOnlyOwnToken ==
  [][\A p \in Procs :
       (~relAttempted[p] /\ relAttempted'[p]
          /\ existsSync(fs, lockFilePath) /\ fs.prod.lock # p) =>
         (existsSync(fs', lockFilePath) /\ fs'.prod.lock = fs.prod.lock)]_vars

\* C34: while a save() is between its successful acquireLock and its own
\* releaseLock (no other process ever ran), the token it created is at the
\* lock path.
C34_TokenStaysDuringSave ==
  \A p \in Procs :
    (op[p] = "save" /\ Holding(p) /\ Alone(p)) =>
      (existsSync(fs, lockFilePath) /\ fs.prod.lock = p)

\* C35: in every state in which the API server answers requests (a reload in
\* progress included), non-null stats are the stats sidecar of the generation
\* that this.vectorStore holds.
C35_StatsOfLoadedGeneration ==
  \A p \in Procs :
    (srv[p] = "running" /\ stats[p] # 0) =>
      (vectorStore[p].doc = stats[p] /\ vectorStore[p].idx = stats[p])

\* C36: in every state of a VectorStore instance non-null stats come with a
\* loaded in-memory store; so whenever GET /health reports indexLoaded = true,
\* getVectorStore() does not throw.
C36_StatsImplyLoadedStore ==
  \A p \in Procs :
    /\ stats[p] # 0 => vectorStore[p] # NoStore
    /\ health(p).indexLoaded => ~getVectorStore_throws(vectorStore[p])

\* the running server reports indexLoaded = true in the middle of a reload
C36_Witness ==
  /\ srv[Server] = "running"
  /\ health(Server).indexLoaded
  /\ op[Server] = "load" /\ pc[Server] = "l_read"
  /\ caller[Server] = "fs"

\* C37: IndexWatcher.stop() detaches the watcher's own listener only: a
\* subscriber that registered for 'indexUpdated' on the same VectorStore is
\* delivered every later emission of save().
C37_StopKeepsOtherSubscribers ==
  [][\A p \in Procs :
       (subscriber[p].on /\ Len(emitted'[p]) > Len(emitted[p])) =>
         subscriber'[p].received = subscriber[p].received + 1]_vars

====
